---- MODULE Spec2Model ----
(***************************************************************************)
(* A model of src/main.py: the run gate (check_run_program), the retried   *)
(* fetches (get_location_auctions, retrieve_auction_location_items), the   *)
(* consolidation and persistence step (write_to_csv_html with              *)
(* get_auction_end_date) and the notification (send_email), as driven by   *)
(* main().  One process runs at a time; an external scheduler invokes it.  *)
(*                                                                         *)
(* Instants are minutes since midnight of day 0 in the local time zone.    *)
(* Text (the time-remaining column) is a sequence of one-character         *)
(* strings.                                                                *)
(***************************************************************************)
EXTENDS Integers, Sequences, FiniteSets

(* ------------------------------ bounds -------------------------------- *)

\* last calendar day on which the scheduler invokes the program
MaxDay == 1
\* number of invocations that pass the gate
MaxRuns == 2
\* longest duration of one fetch attempt, in seconds
MaxDur == 1
\* largest day, hour and minute count of a generated time-remaining text
MaxField == 10

(* ------------------------- program constants -------------------------- *)

HOURS_TO_RUN == {9, 12, 21}
StopAfterDelay == 2
StopAfterAttempt == 3

MinutesPerHour == 60
MinutesPerDay == 1440

(* ------------------------------- text --------------------------------- *)

DigitChars == <<"0", "1", "2", "3", "4", "5", "6", "7", "8", "9">>

IsDigit(c) == \E i \in 1..10 : DigitChars[i] = c

DigitVal(c) == (CHOOSE i \in 1..10 : DigitChars[i] = c) - 1

\* int(text) of a non-empty run of decimal digits
RECURSIVE IntOf(_)
IntOf(ds) ==
    IF Len(ds) = 0 THEN 0
    ELSE 10 * IntOf(SubSeq(ds, 1, Len(ds) - 1)) + DigitVal(ds[Len(ds)])

\* str(n) of a natural number
RECURSIVE StrOf(_)
StrOf(n) ==
    IF n < 10 THEN <<DigitChars[n + 1]>>
    ELSE StrOf(n \div 10) \o <<DigitChars[(n % 10) + 1]>>

\* the site's rendering "<d>d <h>h <m>m" of a time remaining
TimeRemaining(d, h, m) ==
    StrOf(d) \o <<"d", " ">> \o StrOf(h) \o <<"h", " ">> \o StrOf(m) \o <<"m">>

\* end of the maximal run of digits that starts at position i
RECURSIVE DigitRunEnd(_, _)
DigitRunEnd(s, i) ==
    IF i < Len(s) /\ IsDigit(s[i + 1]) THEN DigitRunEnd(s, i + 1) ELSE i

\* re.findall(r"(\d+)<unit>", s): the captured digit runs, left to right.
\* At a start position the greedy \d+ takes the maximal run; a shorter run is
\* followed by a digit, never by the unit, so backtracking finds nothing more.
RECURSIVE FindAllFrom(_, _, _)
FindAllFrom(s, unit, i) ==
    IF i > Len(s) THEN <<>>
    ELSE IF IsDigit(s[i])
         THEN LET j == DigitRunEnd(s, i)
              IN  IF j < Len(s) /\ s[j + 1] = unit
                  THEN <<SubSeq(s, i, j)>> \o FindAllFrom(s, unit, j + 2)
                  ELSE FindAllFrom(s, unit, i + 1)
         ELSE FindAllFrom(s, unit, i + 1)

findall(unit, s) == FindAllFrom(s, unit, 1)

(* ------------------------------ instants ------------------------------ *)

DayOf(t) == t \div MinutesPerDay
HourOf(t) == (t % MinutesPerDay) \div MinutesPerHour
MinuteOf(t) == t % MinutesPerHour

\* a timestamp as its text in a file: calendar date, hour, minute
to_csv_timestamp(t) == [date |-> DayOf(t), hour |-> HourOf(t), minute |-> MinuteOf(t)]

\* pd.to_datetime of that text
to_datetime(x) == x.date * MinutesPerDay + x.hour * MinutesPerHour + x.minute

\* strftime("%m/%d/%Y"): the calendar date
strftime_date(t) == DayOf(t)

\* strftime("%Y%m%d_%H"): the calendar date and the hour
strftime_date_hour(t) == <<DayOf(t), HourOf(t)>>

timedelta(mins, hours, days) == mins + hours * MinutesPerHour + days * MinutesPerDay

(* -------------------------- get_auction_end_date ----------------------- *)

NoError == "none"

\* get_auction_end_date with a missing component read as zero
get_auction_end_date_default_zero(item_auction_time, current_time) ==
    LET first(unit) == LET found == findall(unit, item_auction_time)
                       IN  IF Len(found) = 0 THEN 0 ELSE IntOf(found[1])
    IN  [err |-> NoError,
         val |-> current_time + timedelta(first("m"), first("h"), first("d"))]

\* get_auction_end_date with the hours added as minutes
get_auction_end_date_hours_as_minutes(item_auction_time, current_time) ==
    LET ds == findall("d", item_auction_time)
        hs == findall("h", item_auction_time)
        ms == findall("m", item_auction_time)
    IN  IF Len(ds) = 0 \/ Len(hs) = 0 \/ Len(ms) = 0
        THEN [err |-> "IndexError", val |-> 0]
        ELSE [err |-> NoError,
              val |-> current_time
                      + timedelta(IntOf(ms[1]) + IntOf(hs[1]), 0, IntOf(ds[1]))]

\* [0] of an empty findall raises IndexError; otherwise the sum is returned
get_auction_end_date(item_auction_time, current_time) ==
    LET ds == findall("d", item_auction_time)
        hs == findall("h", item_auction_time)
        ms == findall("m", item_auction_time)
    IN  IF Len(ds) = 0 \/ Len(hs) = 0 \/ Len(ms) = 0
        THEN [err |-> "IndexError", val |-> 0]
        ELSE [err |-> NoError,
              val |-> current_time
                      + timedelta(IntOf(ms[1]), IntOf(hs[1]), IntOf(ds[1]))]

(* ------------------------------ the site ------------------------------ *)

Soon == TimeRemaining(0, 0, 5)
Later == TimeRemaining(0, 5, 0)
\* "0d 5m": the hours token is missing
NoHours == <<"0", "d", " ", "5", "m">>

ItemBlock(name, time, link) ==
    [item_name |-> name, item_auction_time |-> time, item_link |-> link]

\* the item blocks a location page may show, in page order
PageA == <<ItemBlock("lamp", Later, "/item/1"), ItemBlock("chair", Soon, "/item/2")>>
PageNoHours == <<ItemBlock("desk", NoHours, "/item/4")>>
Pages == {PageA, PageNoHours}

\* the location links the index page may list, in page order
LocationLists == {<<>>, <<1>>, <<1, 2>>}

\* requests.get failing
FetchErrors == {"ConnectionError"}
\* BeautifulSoup lookups failing on a page that was fetched: a missing href
\* (KeyError), a missing page-title heading (AttributeError), fewer
\* thumbnails than item blocks (IndexError)
IndexParseErrors == {"KeyError"}
PageParseErrors == {"AttributeError"}

\* the times of day at which the scheduler may invoke the program: 9:00, 9:30,
\* 10:00, 12:00 and 21:00
ClockTimes == {9 * MinutesPerHour, 9 * MinutesPerHour + 30, 10 * MinutesPerHour,
               12 * MinutesPerHour, 21 * MinutesPerHour}
Times == {d * MinutesPerDay + m : d \in 0..MaxDay, m \in ClockTimes}

(* ------------------------------- state -------------------------------- *)

VARIABLES
    pc,                          \* where main() is: idle, index, loc, write, email
    CURRENT_TIMESTAMP,           \* the load-time timestamp of the latest process
    runs,                        \* invocations that passed the gate so far
    result,                      \* how the latest invocation ended
    attempt,                     \* tenacity's attempt_number of the latest fetch
    elapsed,                     \* tenacity's seconds_since_start at the latest outcome
    last_outcome,                \* outcome of the latest fetch attempt
    location_auction_urls,       \* the locations the index listed
    next_url,                    \* position of main()'s loop over them
    all_auction_location_items,  \* the rows collected so far
    fetched,                     \* what each call of retrieve_auction_location_items returned
    latest_csv,                  \* latest_output.csv
    latest_html,                 \* latest_output.html
    outputs,                     \* ./outputs/<YYYYMMDD_HH>_output.csv
    wrote,                       \* the latest invocation wrote its artifacts
    mail                         \* what became of the latest invocation's email

vars == <<pc, CURRENT_TIMESTAMP, runs, result, attempt, elapsed, last_outcome,
          location_auction_urls, next_url, all_auction_location_items, fetched,
          latest_csv, latest_html, outputs, wrote, mail>>

NoFile == [exists |-> FALSE, rows |-> <<>>]
File(rows) == [exists |-> TRUE, rows |-> rows]

Init ==
    /\ pc = "idle"
    /\ CURRENT_TIMESTAMP = 0
    /\ runs = 0
    /\ result = "none"
    /\ attempt = 1
    /\ elapsed = 0
    /\ last_outcome = "none"
    /\ location_auction_urls = <<>>
    /\ next_url = 1
    /\ all_auction_location_items = <<>>
    /\ fetched = <<>>
    /\ latest_csv = NoFile
    /\ latest_html = NoFile
    /\ outputs = <<>>
    /\ wrote = FALSE
    /\ mail = "none"

(* --------------------------- check_run_program ------------------------ *)

\* Series.unique(): the values in order of first appearance
RECURSIVE unique(_)
unique(s) ==
    IF Len(s) = 0 THEN <<>>
    ELSE LET init == unique(SubSeq(s, 1, Len(s) - 1))
             x == s[Len(s)]
         IN  IF \E i \in 1..Len(init) : init[i] = x THEN init ELSE Append(init, x)

\* the gate's loop with the date test and the hour test joined by "or"
RECURSIVE gate_loop_or(_, _, _)
gate_loop_or(dates, i, now) ==
    IF i > Len(dates) THEN "None"
    ELSE IF strftime_date(dates[i]) = strftime_date(now)
            \/ HourOf(now) \in HOURS_TO_RUN
         THEN "True"
         ELSE gate_loop_or(dates, i + 1, now)

\* the gate's loop with the hour test alone
RECURSIVE gate_loop_hour_only(_, _, _)
gate_loop_hour_only(dates, i, now) ==
    IF i > Len(dates) THEN "None"
    ELSE IF HourOf(now) \in HOURS_TO_RUN
         THEN "True"
         ELSE gate_loop_hour_only(dates, i + 1, now)

\* the for loop of check_run_program: True at the first match, and None
\* (no return statement) when the loop ends
RECURSIVE gate_loop(_, _, _)
gate_loop(dates, i, now) ==
    IF i > Len(dates) THEN "None"
    ELSE IF strftime_date(dates[i]) = strftime_date(now)
            /\ HourOf(now) \in HOURS_TO_RUN
         THEN "True"
         ELSE gate_loop(dates, i + 1, now)

end_dates_of(csv) == [i \in 1..Len(csv.rows) |-> to_datetime(csv.rows[i].auction_end_date)]

check_run_program_or(csv, now) ==
    IF ~csv.exists THEN "True" ELSE gate_loop_or(unique(end_dates_of(csv)), 1, now)

check_run_program_hour_only(csv, now) ==
    IF ~csv.exists THEN "True" ELSE gate_loop_hour_only(unique(end_dates_of(csv)), 1, now)

check_run_program(csv, now) ==
    IF ~csv.exists THEN "True" ELSE gate_loop(unique(end_dates_of(csv)), 1, now)

\* Python's truth value of what check_run_program returns
Truthy(v) == v = "True"

(* -------------------------------- main -------------------------------- *)

\* "if not check_run_program(): return": the invocation does nothing
Skip(t) ==
    /\ pc = "idle"
    /\ t > CURRENT_TIMESTAMP
    /\ ~Truthy(check_run_program(latest_csv, t))
    /\ CURRENT_TIMESTAMP' = t
    /\ result' = "skipped"
    /\ attempt' = 1
    /\ elapsed' = 0
    /\ last_outcome' = "none"
    /\ location_auction_urls' = <<>>
    /\ next_url' = 1
    /\ all_auction_location_items' = <<>>
    /\ fetched' = <<>>
    /\ wrote' = FALSE
    /\ mail' = "none"
    /\ UNCHANGED <<pc, runs, latest_csv, latest_html, outputs>>

\* the gate passes: main() goes on to get_location_auctions
Begin(t) ==
    /\ pc = "idle"
    /\ t > CURRENT_TIMESTAMP
    /\ runs < MaxRuns
    /\ Truthy(check_run_program(latest_csv, t))
    /\ CURRENT_TIMESTAMP' = t
    /\ runs' = runs + 1
    /\ pc' = "index"
    /\ result' = "running"
    /\ attempt' = 1
    /\ elapsed' = 0
    /\ last_outcome' = "none"
    /\ location_auction_urls' = <<>>
    /\ next_url' = 1
    /\ all_auction_location_items' = <<>>
    /\ fetched' = <<>>
    /\ wrote' = FALSE
    /\ mail' = "none"
    /\ UNCHANGED <<latest_csv, latest_html, outputs>>

(* ------------------------------- @retry -------------------------------- *)

\* tenacity's default retry condition: any exception
retry_if_exception_fetch_only(exc) == exc \in FetchErrors

retry_if_exception(exc) == exc \in FetchErrors \cup IndexParseErrors \cup PageParseErrors

\* a stop condition that needs both limits
retry_stop_both(attempt_number, seconds_since_start) ==
    seconds_since_start >= StopAfterDelay /\ attempt_number >= StopAfterAttempt

\* stop_after_delay(2) | stop_after_attempt(3)
retry_stop(attempt_number, seconds_since_start) ==
    seconds_since_start >= StopAfterDelay \/ attempt_number >= StopAfterAttempt

\* one attempt of a retried function raises exc after dur seconds
AttemptRaises(exc, dur) ==
    LET since == elapsed + dur
    IN  /\ last_outcome' = exc
        /\ elapsed' = since
        /\ IF ~retry_if_exception(exc)
           THEN pc' = "idle" /\ result' = exc /\ attempt' = attempt
           ELSE IF retry_stop(attempt, since)
                THEN pc' = "idle" /\ result' = "RetryError" /\ attempt' = attempt
                ELSE pc' = pc /\ result' = result /\ attempt' = attempt + 1
        /\ UNCHANGED <<CURRENT_TIMESTAMP, runs, location_auction_urls, next_url,
                       all_auction_location_items, fetched, latest_csv, latest_html,
                       outputs, wrote, mail>>

(* ------------------------- get_location_auctions ---------------------- *)

get_location_auctions_ok(links) ==
    /\ pc = "index"
    /\ last_outcome' = "ok"
    /\ location_auction_urls' = links
    /\ next_url' = 1
    /\ pc' = IF Len(links) = 0 THEN "write" ELSE "loc"
    /\ attempt' = 1
    /\ elapsed' = 0
    /\ UNCHANGED <<CURRENT_TIMESTAMP, runs, result, all_auction_location_items,
                   fetched, latest_csv, latest_html, outputs, wrote, mail>>

get_location_auctions_raises(exc, dur) ==
    /\ pc = "index"
    /\ AttemptRaises(exc, dur)

(* -------------------- retrieve_auction_location_items ------------------ *)

\* the rows built from a page's item blocks, each stamped CURRENT_TIMESTAMP
rows_of(page, location) ==
    [i \in 1..Len(page) |->
        [loc_name |-> location,
         item_name |-> page[i].item_name,
         item_auction_time |-> page[i].item_auction_time,
         item_link |-> page[i].item_link,
         scraped_at_local |-> CURRENT_TIMESTAMP]]

\* list.extend replaced by an assignment
extend_overwrite(items, more) == more

\* list.extend
extend(items, more) == items \o more

retrieve_auction_location_items_ok(page) ==
    /\ pc = "loc"
    /\ LET got == rows_of(page, location_auction_urls[next_url])
       IN  /\ all_auction_location_items' = extend(all_auction_location_items, got)
           /\ fetched' = Append(fetched, got)
    /\ last_outcome' = "ok"
    /\ next_url' = next_url + 1
    /\ pc' = IF next_url = Len(location_auction_urls) THEN "write" ELSE "loc"
    /\ attempt' = 1
    /\ elapsed' = 0
    /\ UNCHANGED <<CURRENT_TIMESTAMP, runs, result, location_auction_urls,
                   latest_csv, latest_html, outputs, wrote, mail>>

retrieve_auction_location_items_raises(exc, dur) ==
    /\ pc = "loc"
    /\ AttemptRaises(exc, dur)

(* ---------------------------- write_to_csv_html ------------------------ *)

\* the data frame before the sort: the collected rows under their positional
\* index, each with what get_auction_end_date gave for it
data_frame(items) ==
    [i \in 1..Len(items) |->
        [index |-> i - 1,
         row |-> items[i],
         end |-> get_auction_end_date(items[i].item_auction_time,
                                      items[i].scraped_at_local)]]

RECURSIVE ascending_orders(_, _)
ascending_orders(df, left) ==
    IF left = {} THEN {<<>>}
    ELSE UNION {{<<df[i]>> \o rest : rest \in ascending_orders(df, left \ {i})} :
                i \in {k \in left : \A j \in left : df[k].end.val <= df[j].end.val}}

\* sort_values left out: the frame in collection order
sort_values_unsorted(df) == {df}

\* df.sort_values("auction_end_date") with the default kind="quicksort", which
\* is not a stable sort: any ascending order of the rows may come out
sort_values(df) == ascending_orders(df, 1..Len(df))

\* the file's rows: the frame's rows with their timestamps as text
to_csv(df) ==
    [i \in 1..Len(df) |->
        [index |-> df[i].index,
         loc_name |-> df[i].row.loc_name,
         item_name |-> df[i].row.item_name,
         item_auction_time |-> df[i].row.item_auction_time,
         item_link |-> df[i].row.item_link,
         scraped_at_local |-> to_csv_timestamp(df[i].row.scraped_at_local),
         auction_end_date |-> to_csv_timestamp(df[i].end.val)]]

\* an archive name that leaves the hour out
archive_name_date_only(ts) == <<DayOf(ts), 0>>

\* f"./outputs/{str_current_time}_output.csv"
archive_name(ts) == strftime_date_hour(ts)

\* copyfile(src, dst): dst is created or overwritten
copyfile(dir, name, file) ==
    [k \in DOMAIN dir \cup {name} |-> IF k = name THEN file ELSE dir[k]]

\* df.apply raises what get_auction_end_date raised, before any file is written
write_to_csv_html_raises ==
    /\ pc = "write"
    /\ LET df == data_frame(all_auction_location_items)
       IN  \E i \in 1..Len(df) :
              /\ df[i].end.err # NoError
              /\ \A j \in 1..(i - 1) : df[j].end.err = NoError
              /\ result' = df[i].end.err
    /\ pc' = "idle"
    /\ UNCHANGED <<CURRENT_TIMESTAMP, runs, attempt, elapsed, last_outcome,
                   location_auction_urls, next_url, all_auction_location_items,
                   fetched, latest_csv, latest_html, outputs, wrote, mail>>

\* with no rows df.apply returns the empty frame itself, not a column, and
\* assigning a frame of seven columns to the one column auction_end_date
\* raises ValueError, before any file is written
write_to_csv_html_empty_raises ==
    /\ pc = "write"
    /\ Len(all_auction_location_items) = 0
    /\ pc' = "idle"
    /\ result' = "ValueError"
    /\ UNCHANGED <<CURRENT_TIMESTAMP, runs, attempt, elapsed, last_outcome,
                   location_auction_urls, next_url, all_auction_location_items,
                   fetched, latest_csv, latest_html, outputs, wrote, mail>>

\* the sorted frame goes to latest_output.csv and latest_output.html, and the
\* csv is copied to ./outputs under the run's date and hour
write_to_csv_html ==
    /\ pc = "write"
    /\ Len(all_auction_location_items) > 0
    /\ LET df == data_frame(all_auction_location_items)
       IN  /\ \A i \in 1..Len(df) : df[i].end.err = NoError
           /\ \E sorted \in sort_values(df) :
                 /\ latest_csv' = File(to_csv(sorted))
                 /\ latest_html' = File(to_csv(sorted))
                 /\ outputs' = copyfile(outputs, archive_name(CURRENT_TIMESTAMP),
                                        File(to_csv(sorted)))
    /\ wrote' = TRUE
    /\ pc' = "email"
    /\ UNCHANGED <<CURRENT_TIMESTAMP, runs, result, attempt, elapsed, last_outcome,
                   location_auction_urls, next_url, all_auction_location_items,
                   fetched, mail>>

(* ------------------------------- send_email ---------------------------- *)

\* what sg.send may raise: python_http_client's HTTPError and urllib's URLError
\* carry no attribute "message"; an exception class that defines one may
SendExceptions == {[type |-> "HTTPError", has_message |-> FALSE],
                   [type |-> "URLError", has_message |-> FALSE],
                   [type |-> "OtherError", has_message |-> TRUE]}

send_email_ok ==
    /\ pc = "email"
    /\ mail' = "sent"
    /\ pc' = "idle"
    /\ result' = "completed"
    /\ UNCHANGED <<CURRENT_TIMESTAMP, runs, attempt, elapsed, last_outcome,
                   location_auction_urls, next_url, all_auction_location_items,
                   fetched, latest_csv, latest_html, outputs, wrote>>

\* "except Exception as e: logging.warning(e.message)": reading e.message of
\* an exception without that attribute raises AttributeError in the handler
send_email_raises(e) ==
    /\ pc = "email"
    /\ mail' = "failed"
    /\ pc' = "idle"
    /\ result' = IF e.has_message THEN "completed" ELSE "AttributeError"
    /\ UNCHANGED <<CURRENT_TIMESTAMP, runs, attempt, elapsed, last_outcome,
                   location_auction_urls, next_url, all_auction_location_items,
                   fetched, latest_csv, latest_html, outputs, wrote>>

(* ---------------------------- specifications --------------------------- *)

Next ==
    \/ \E t \in Times : Skip(t)
    \/ \E t \in Times : Begin(t)
    \/ \E links \in LocationLists : get_location_auctions_ok(links)
    \/ \E exc \in FetchErrors \cup IndexParseErrors, dur \in 0..MaxDur :
          get_location_auctions_raises(exc, dur)
    \/ \E page \in Pages : retrieve_auction_location_items_ok(page)
    \/ \E exc \in FetchErrors \cup PageParseErrors, dur \in 0..MaxDur :
          retrieve_auction_location_items_raises(exc, dur)
    \/ write_to_csv_html_raises
    \/ write_to_csv_html_empty_raises
    \/ write_to_csv_html
    \/ send_email_ok
    \/ \E e \in SendExceptions : send_email_raises(e)

Spec == Init /\ [][Next]_vars

(* -------- the end-date derivation over generated time-remaining text ---- *)

\* largest day count of a generated time-remaining text
MaxDays == 2

WellFormed ==
    {TimeRemaining(d, h, m) : d \in 0..MaxDays, h \in 0..MaxField, m \in 0..MaxField}

\* scrape times: day 0 at 10:00, day 0 at 21:30, day 1 at 23:59
ScrapeTimes == {10 * MinutesPerHour,
                21 * MinutesPerHour + 30,
                MinutesPerDay + 23 * MinutesPerHour + 59}

\* s with its i-th character left out
RemoveAt(s, i) == SubSeq(s, 1, i - 1) \o SubSeq(s, i + 1, Len(s))

\* the well-formed texts, and each of them with one character lost
DeriveInputs == WellFormed \cup UNION {{RemoveAt(s, i) : i \in 1..Len(s)} : s \in WellFormed}

\* main() about to call write_to_csv_html with one row collected from one
\* location, whose time-remaining text is any of DeriveInputs
InitDerive ==
    /\ pc = "write"
    /\ CURRENT_TIMESTAMP \in ScrapeTimes
    /\ runs = 1
    /\ result = "running"
    /\ attempt = 1
    /\ elapsed = 0
    /\ last_outcome = "ok"
    /\ location_auction_urls = <<1>>
    /\ next_url = 2
    /\ \E text \in DeriveInputs :
          /\ all_auction_location_items = rows_of(<<ItemBlock("lot", text, "/item/0")>>, 1)
          /\ fetched = <<rows_of(<<ItemBlock("lot", text, "/item/0")>>, 1)>>
    /\ latest_csv = NoFile
    /\ latest_html = NoFile
    /\ outputs = <<>>
    /\ wrote = FALSE
    /\ mail = "none"

NextDerive ==
    \/ write_to_csv_html_raises
    \/ write_to_csv_html
    \/ send_email_ok
    \/ \E e \in SendExceptions : send_email_raises(e)

SpecDerive == InitDerive /\ [][NextDerive]_vars

(* ------------------------------ properties ----------------------------- *)

Fetching == {"index", "loc"}
ParseErrors == IndexParseErrors \cup PageParseErrors

\* some end date in the file falls on the calendar date of instant t
EndsOn(csv, t) ==
    \E i \in 1..Len(csv.rows) : csv.rows[i].auction_end_date.date = t \div 1440

\* every end date in the file falls on a calendar date before that of instant t
AllEndedBefore(csv, t) ==
    \A i \in 1..Len(csv.rows) : csv.rows[i].auction_end_date.date < t \div 1440

ArtifactsUnchanged ==
    /\ latest_csv' = latest_csv
    /\ latest_html' = latest_html
    /\ outputs' = outputs

\* C1: an invocation passes the gate exactly when no prior artifact exists, or
\* some auction_end_date of the prior artifact falls on the invocation's
\* calendar date and the invocation's hour is 9, 12 or 21; any other
\* invocation is a skip.
C1_GateDecision ==
    [][pc = "idle" =>
         /\ pc' = "index" <=>
               \/ ~latest_csv.exists
               \/ /\ EndsOn(latest_csv, CURRENT_TIMESTAMP')
                  /\ (CURRENT_TIMESTAMP' % 1440) \div 60 \in {9, 12, 21}
         /\ pc' # "index" => pc' = "idle" /\ result' = "skipped"]_vars

\* a second run was let through on the strength of the prior artifact
C1_Witness ==
    /\ pc = "index"
    /\ runs = 2
    /\ latest_csv.exists
    /\ EndsOn(latest_csv, CURRENT_TIMESTAMP)
    /\ HourOf(CURRENT_TIMESTAMP) = 21

\* C2: when sending the email raises, the run still ends normally.
C2_NotificationFailureNeverFailsRun ==
    (pc = "idle" /\ mail = "failed") =>
        /\ result = "completed"
        /\ wrote
        /\ latest_csv.exists

\* C3: a fetch is attempted at most 3 times and no attempt starts once 2
\* seconds have elapsed; a failure that ends the budget ends the run with
\* RetryError; and while fetching, nothing is written and no email is sent, so
\* a run that ends in a fetch has left the prior artifacts as they were.
C3_RetryBudgetThenFatal ==
    [][/\ pc' \in Fetching => attempt' <= 3 /\ (attempt' > 1 => elapsed' < 2)
       /\ pc \in Fetching =>
             /\ ArtifactsUnchanged
             /\ ~wrote'
             /\ mail' = "none"
             /\ (last_outcome' # "ok" /\ (attempt >= 3 \/ elapsed' >= 2)) =>
                   pc' = "idle" /\ result' = "RetryError"
             /\ pc' = "idle" => result' = "RetryError"]_vars

\* the second run failed for good on its second location, the first run's
\* artifact in place
C3_Witness ==
    /\ pc = "idle"
    /\ result = "RetryError"
    /\ runs = 2
    /\ Len(fetched) = 1
    /\ attempt = 3
    /\ latest_csv.exists
    /\ ~wrote

TheText == all_auction_location_items[1].item_auction_time

\* C4: for a well-formed "<d>d <h>h <m>m" the end date written is the scrape
\* time plus d days, h hours and m minutes, hence not before the scrape time.
C4_EndDateIsExactSum ==
    \A d \in 0..MaxDays, h \in 0..MaxField, m \in 0..MaxField :
        (pc # "write" /\ TheText = TimeRemaining(d, h, m)) =>
            /\ wrote
            /\ Len(latest_csv.rows) = 1
            /\ to_datetime(latest_csv.rows[1].auction_end_date)
                  = CURRENT_TIMESTAMP + d * 1440 + h * 60 + m
            /\ to_datetime(latest_csv.rows[1].auction_end_date)
                  >= to_datetime(latest_csv.rows[1].scraped_at_local)

\* scraped on day 0 at 10:00, "2d 3h 10m" ends on day 2 at 13:10
C4_Witness ==
    /\ wrote
    /\ CURRENT_TIMESTAMP = 600
    /\ TheText = <<"2", "d", " ", "3", "h", " ", "1", "0", "m">>
    /\ latest_csv.rows[1].auction_end_date = [date |-> 2, hour |-> 13, minute |-> 10]

HasToken(s, unit) == \E i \in 1..(Len(s) - 1) : IsDigit(s[i]) /\ s[i + 1] = unit

\* C5: a text without a days, an hours or a minutes token makes
\* write_to_csv_html raise IndexError with no file written and no email sent.
C5_MissingTokenRaises ==
    (pc # "write" /\ ~(HasToken(TheText, "d") /\ HasToken(TheText, "h") /\ HasToken(TheText, "m")))
        => /\ pc = "idle"
           /\ result = "IndexError"
           /\ ~wrote
           /\ latest_csv = NoFile
           /\ latest_html = NoFile
           /\ outputs = <<>>
           /\ mail = "none"

\* "2d 3 10m": the hours token is missing, and the run ended in IndexError
C5_Witness ==
    /\ pc = "idle"
    /\ result = "IndexError"
    /\ TheText = <<"2", "d", " ", "3", " ", "1", "0", "m">>

RECURSIVE Flatten(_)
Flatten(ss) ==
    IF Len(ss) = 0 THEN <<>> ELSE Flatten(SubSeq(ss, 1, Len(ss) - 1)) \o ss[Len(ss)]

RECURSIVE SumLen(_)
SumLen(ss) ==
    IF Len(ss) = 0 THEN 0 ELSE SumLen(SubSeq(ss, 1, Len(ss) - 1)) + Len(ss[Len(ss)])

Count(s, x) == Cardinality({i \in 1..Len(s) : s[i] = x})

\* a file row as the collected row it came from
AsCollected(r) ==
    [loc_name |-> r.loc_name, item_name |-> r.item_name,
     item_auction_time |-> r.item_auction_time, item_link |-> r.item_link,
     scraped_at_local |-> to_datetime(r.scraped_at_local)]

WrittenRows == [i \in 1..Len(latest_csv.rows) |-> AsCollected(latest_csv.rows[i])]

EndOfRow(i) == to_datetime(latest_csv.rows[i].auction_end_date)

\* C6: the rows written are the rows the locations returned, each as often as
\* it was returned, and they are in ascending order of auction_end_date.
C6_ConsolidationIsSortedPermutation ==
    wrote =>
        /\ Len(latest_csv.rows) = SumLen(fetched)
        /\ \A i \in 1..Len(Flatten(fetched)) :
              Count(WrittenRows, Flatten(fetched)[i]) = Count(Flatten(fetched), Flatten(fetched)[i])
        /\ \A i \in 1..Len(WrittenRows) :
              Count(Flatten(fetched), WrittenRows[i]) = Count(WrittenRows, WrittenRows[i])
        /\ \A i, j \in 1..Len(latest_csv.rows) : i < j => EndOfRow(i) <= EndOfRow(j)

\* two locations listed the same items, collected out of end-date order
C6_Witness ==
    /\ wrote
    /\ Len(fetched) = 2
    /\ Len(latest_csv.rows) = 4
    /\ \E i, j \in 1..4 :
          /\ latest_csv.rows[i].item_link = latest_csv.rows[j].item_link
          /\ latest_csv.rows[i].loc_name # latest_csv.rows[j].loc_name
    /\ \E i, j \in 1..4 :
          /\ latest_csv.rows[i].index > latest_csv.rows[j].index
          /\ i < j

\* C7 as claimed: rows with equal auction_end_date are written in the order
\* in which they were collected.
C7_SortIsStable ==
    wrote =>
        \A i, j \in 1..Len(latest_csv.rows) :
            (i < j /\ EndOfRow(i) = EndOfRow(j)) =>
                latest_csv.rows[i].index < latest_csv.rows[j].index

\* C7 as amended: of two collected rows the one with the earlier
\* auction_end_date is written first; rows with equal auction_end_date may
\* come in either order.
C7_EarlierEndWrittenFirst ==
    wrote =>
        \A i, j \in 1..Len(latest_csv.rows) :
            EndOfRow(i) < EndOfRow(j) => i < j

\* rows with equal auction_end_date written against the collection order
C7_Witness ==
    /\ wrote
    /\ \E i, j \in 1..Len(latest_csv.rows) :
          /\ i < j
          /\ EndOfRow(i) = EndOfRow(j)
          /\ latest_csv.rows[i].index > latest_csv.rows[j].index

DateHour(t) == <<t \div 1440, (t % 1440) \div 60>>

\* C8 as claimed: a run that wrote has its own archived copy, and no archived
\* copy is ever overwritten.
C8_OneSnapshotPerRun ==
    [][/\ wrote' => /\ DateHour(CURRENT_TIMESTAMP') \in DOMAIN outputs'
                    /\ outputs'[DateHour(CURRENT_TIMESTAMP')] = latest_csv'
       /\ \A k \in DOMAIN outputs : k \in DOMAIN outputs' /\ outputs'[k] = outputs[k]]_vars

\* C8 as amended: a run that wrote has an archived copy, equal to the primary
\* artifact it wrote, under its date and hour; an archived copy is created or
\* changed only by a run of that same date and hour, so a later run in the
\* same hour overwrites it and runs of other hours leave it alone.
C8_SnapshotPerDateAndHour ==
    [][/\ wrote' => /\ DateHour(CURRENT_TIMESTAMP') \in DOMAIN outputs'
                    /\ outputs'[DateHour(CURRENT_TIMESTAMP')] = latest_csv'
       /\ \A k \in DOMAIN outputs' :
             (k \notin DOMAIN outputs \/ outputs'[k] # outputs[k]) =>
                 /\ k = DateHour(CURRENT_TIMESTAMP')
                 /\ pc = "write"
                 /\ wrote'
       /\ DOMAIN outputs \subseteq DOMAIN outputs']_vars

\* two runs wrote in different hours: the later run's copy equals the primary
\* artifact, and the earlier run's copy, with other rows, is still there
C8_Witness ==
    /\ wrote
    /\ Cardinality(DOMAIN outputs) = 2
    /\ \E k \in DOMAIN outputs : outputs[k] # latest_csv /\ Len(outputs[k].rows) > 0

\* C9 as claimed: after a parse failure on a fetched page the run is over; the
\* page is not fetched again.
C9_ParseFailureNotRetried ==
    last_outcome \in ParseErrors => pc = "idle" /\ result \notin {"running", "completed"}

\* C9 as amended: a failed attempt, a parse failure on the fetched page as
\* much as a failed request, is followed by another fetch of the page while
\* fewer than 3 attempts were made and less than 2 seconds have passed, and
\* ends the run with RetryError otherwise.
C9_ParseFailureRetriedWithinBudget ==
    [][(pc \in Fetching /\ last_outcome' \in ParseErrors \cup FetchErrors) =>
          IF attempt < 3 /\ elapsed' < 2
          THEN pc' = pc /\ attempt' = attempt + 1 /\ result' = "running"
          ELSE pc' = "idle" /\ result' = "RetryError"]_vars

\* a location page that did not parse is about to be fetched a second time
C9_Witness ==
    /\ pc = "loc"
    /\ last_outcome \in PageParseErrors
    /\ attempt = 2

\* C10: an invocation that is skipped fetches nothing, writes nothing and
\* sends nothing; and once every auction_end_date of the artifact lies on a
\* date before the current one, every invocation is skipped and the artifact
\* stays as it is.
C10_StaleArtifactNeverRuns ==
    [][/\ (pc = "idle" /\ pc' = "idle") =>
             /\ result' = "skipped"
             /\ ArtifactsUnchanged
             /\ ~wrote'
             /\ mail' = "none"
             /\ fetched' = <<>>
             /\ last_outcome' = "none"
       /\ (/\ pc = "idle"
           /\ latest_csv.exists
           /\ \/ AllEndedBefore(latest_csv, CURRENT_TIMESTAMP)
              \/ AllEndedBefore(latest_csv, CURRENT_TIMESTAMP')) =>
             /\ pc' = "idle"
             /\ latest_csv' = latest_csv
             /\ AllEndedBefore(latest_csv', CURRENT_TIMESTAMP')]_vars

\* an invocation at a trigger hour was skipped: the artifact's auctions all
\* ended the day before
C10_Witness ==
    /\ pc = "idle"
    /\ result = "skipped"
    /\ latest_csv.exists
    /\ Len(latest_csv.rows) > 0
    /\ AllEndedBefore(latest_csv, CURRENT_TIMESTAMP)
    /\ HourOf(CURRENT_TIMESTAMP) \in HOURS_TO_RUN

====
